---- MODULE Spec2Model ----
(***************************************************************************)
(* es6ify: conversion of a tree of concatenated ES5 scripts into ES6       *)
(* modules.  The model follows the latest revision of the pipeline         *)
(* (src/index.js, lines 257-705): scan (registry seeding, oneFile per      *)
(* path, removeGlobalSymbols), combineFiles, findCircularities, write.     *)
(*                                                                         *)
(* Names (file stems, directory segments) are sequences of one-character  *)
(* strings, source text is a sequence of characters, each character       *)
(* tagged with the statement it belongs to.  JavaScript Map and Set are    *)
(* insertion ordered, so they are sequences without repetition.            *)
(***************************************************************************)
EXTENDS Integers, Sequences, FiniteSets, TLC

\* ------------------------------------------------------------------ bounds
MaxFiles == 3        \* input paths of one invocation (symbol family)
MaxNameFiles == 3    \* input paths of one invocation (name family)
MaxStmts == 3        \* top-level statements of one file (partition family)
MaxStmtLen == 2      \* characters of one statement (partition family)
MaxMaxSize == 3      \* largest finite maxSize option tried
MaxRuns == 2         \* invocations of es6ify in one process (name family)

\* ------------------------------------------------------- program constants
PadWidth == 3        \* padStart(3, "0")
Infinity == -1       \* maxSize = Infinity: no finite offset reaches it

\* ----------------------------------------------------------------- helpers
SeqToSet(s) == {s[k] : k \in 1..Len(s)}

Contains(s, e) == \E k \in 1..Len(s) : s[k] = e

RECURSIVE Flatten(_)
Flatten(ss) == IF ss = <<>> THEN <<>> ELSE Head(ss) \o Flatten(Tail(ss))

Repeat(c, n) == [k \in 1..n |-> c]

\* String.prototype.toLowerCase on the letters the inputs use.
Lower(c) ==
  CASE c = "U" -> "u"
    [] OTHER -> c

toLowerCase(s) == [k \in 1..Len(s) |-> Lower(s[k])]

DigitChars == <<"0", "1", "2", "3", "4", "5", "6", "7", "8", "9">>

\* String(n) for a non-negative integer.
RECURSIVE String(_)
String(n) ==
  IF n < 10 THEN <<DigitChars[n + 1]>>
  ELSE String(n \div 10) \o <<DigitChars[(n % 10) + 1]>>

padStart(s, width, c) ==
  IF Len(s) >= width THEN s ELSE Repeat(c, width - Len(s)) \o s

\* A file key: a relative path, directory segments and stem (".js" implied).
NoFile == [dir |-> <<>>, name |-> <<>>]     \* definition undefined

\* modifyFilename(path, fn): only the stem changes.
modifyFilename(path, newName) == [path EXCEPT !.name = newName]

\* Path.dirname(path).split(Path.sep).filter(Boolean)
DirSegments(path) == IF path.dir = <<>> THEN <<<<".">>>> ELSE path.dir

\* The text read for a file key that the Map does not hold: undefined.
Undefined == <<<<0, 0>>>>

VARIABLES
  paths,      \* the ordered input: per path its directory, stem, parse result, body
  opts,       \* maxSize, renameDups, combine, stripComments, runs
  symbols,    \* Map name -> {definition, assignments, references}
  files,      \* Map file key -> text
  fileNames,  \* Set of registered stems and directory segments (module level)
  dupCount,   \* rename counter (module level)
  pc,         \* position in es6ify
  next,       \* index of the next path walkFiles hands to oneFile
  output,     \* the tree write() produced
  indexJs,    \* the aggregator's import list
  log,        \* the merges combineFileEntries performed in this invocation
  run,        \* number of the current invocation
  firstRun,   \* what the first invocation left behind
  shadow,     \* the same invocation over the paths that parse
  inserted,   \* the file keys in the order ingestion first inserted them
  pairs       \* the pairs of keys findCircularities has examined

vars == <<paths, opts, symbols, files, fileNames, dupCount, pc, next,
          output, indexJs, log, run, firstRun, shadow, inserted, pairs>>


\* ------------------------------------------------------- Map and Set (JS)
Keys(fs) == [k \in 1..Len(fs) |-> fs[k].key]

FilesHas(fs, key) == \E k \in 1..Len(fs) : fs[k].key = key

\* Map.prototype.get: undefined for an absent key.
FilesGet(fs, key) ==
  IF FilesHas(fs, key)
  THEN fs[CHOOSE k \in 1..Len(fs) : fs[k].key = key].text
  ELSE Undefined

\* Mutant: the Map whose set() moves an existing key to the end.
FilesSetMovesKey(fs, key, text) ==
  Append(SelectSeq(fs, LAMBDA f : f.key # key), [key |-> key, text |-> text])

\* Map.prototype.set: an existing key keeps its position, a new one goes last.
FilesSet(fs, key, text) ==
  IF FilesHas(fs, key)
  THEN [k \in 1..Len(fs) |-> IF fs[k].key = key THEN [key |-> key, text |-> text] ELSE fs[k]]
  ELSE Append(fs, [key |-> key, text |-> text])

FilesDelete(fs, key) == SelectSeq(fs, LAMBDA f : f.key # key)

\* Set.prototype.add
SetAdd(set, v) == IF Contains(set, v) THEN set ELSE Append(set, v)

\* Set.prototype.delete
SetDelete(set, v) == SelectSeq(set, LAMBDA e : e # v)

replaceInSet(set, oldValue, newValue) ==
  IF Contains(set, oldValue) THEN SetAdd(SetDelete(set, oldValue), newValue) ELSE set

\* ------------------------------------------------------ the parsed input
\* Offsets of the top-level statements of a body (node.start, node.end).
\* A comment of body[k].comment characters stands before statement k; the
\* parser's offsets are those of the text as read.
RECURSIVE EndOf(_, _)
EndOf(body, k) == IF k = 0 THEN 0 ELSE EndOf(body, k - 1) + body[k].comment + body[k].len

StartOf(body, k) == EndOf(body, k - 1) + body[k].comment

\* fs.readFile: the text of path p, every character tagged <<p, statement>>,
\* the characters of a comment tagged <<p, 0>>.
ReadFile(p) ==
  Flatten([k \in 1..Len(paths[p].body) |->
             Repeat(<<p, 0>>, paths[p].body[k].comment)
               \o Repeat(<<p, k>>, paths[p].body[k].len)])

\* The comments the parser hands to onComment, in source order.
OnComment(body) ==
  LET commented == SelectSeq([k \in 1..Len(body) |-> k], LAMBDA k : body[k].comment > 0)
  IN [n \in 1..Len(commented) |->
        [start |-> EndOf(body, commented[n] - 1), end |-> StartOf(body, commented[n])]]

\* String.prototype.slice(from, to) with 0-based offsets.
Slice(text, from, to) ==
  SubSeq(text, from + 1, IF to > Len(text) THEN Len(text) ELSE to)

\* The statements whose text lies in a piece of code.
StatementsIn(code) == {paths[c[1]].body[c[2]] : c \in {t \in SeqToSet(code) : t[2] # 0}}

\* The loop of oneFile over onComment, last comment first:
\* file = file.slice(0, start) + file.slice(end)
RECURSIVE stripComments(_, _, _)
stripComments(file, onComment, i) ==
  IF i < 1 THEN file
  ELSE stripComments(Slice(file, 0, onComment[i].start)
                       \o Slice(file, onComment[i].end, Len(file)),
                     onComment, i - 1)

\* Order in which acorn-globals reports names (sorted by name).
NameOrder == <<"x", "y", "z">>

\* acorn-globals: the names used in the code and not declared in it, each
\* with whether one of its occurrences is the left side of an assignment
\* (nodes.some(isAssignmentExpression)).
AcornGlobals(code) ==
  LET stmts == StatementsIn(code)
      declared == UNION {SeqToSet(s.declarations) : s \in stmts}
      read == UNION {s.reads : s \in stmts}
      written == UNION {s.writes : s \in stmts}
      used == SelectSeq(NameOrder, LAMBDA n : n \in (read \cup written) \ declared)
  IN [k \in 1..Len(used) |-> [name |-> used[k], isAssignment |-> used[k] \in written]]

\* ---------------------------------------------------------- symbol table
SymbolsHas(syms, name) == \E k \in 1..Len(syms) : syms[k].name = name

SymbolIndex(syms, name) == CHOOSE k \in 1..Len(syms) : syms[k].name = name

createSymbolEntry(syms, name) ==
  IF SymbolsHas(syms, name) THEN syms
  ELSE Append(syms, [name |-> name, definition |-> NoFile,
                     assignments |-> <<>>, references |-> <<>>])

addSymbolDefinition(syms, name, destName) ==
  LET s == createSymbolEntry(syms, name)
  IN [s EXCEPT ![SymbolIndex(s, name)].definition = destName]

RECURSIVE addSymbolDefinitions(_, _, _)
addSymbolDefinitions(syms, names, destName) ==
  IF names = <<>> THEN syms
  ELSE addSymbolDefinitions(addSymbolDefinition(syms, Head(names), destName),
                            Tail(names), destName)

\* The loop over AcornGlobals(code) in oneFile.
RECURSIVE addSymbolsUsed(_, _, _)
addSymbolsUsed(syms, used, destName) ==
  IF used = <<>> THEN syms
  ELSE LET s == createSymbolEntry(syms, Head(used).name)
           k == SymbolIndex(s, Head(used).name)
           t == IF Head(used).isAssignment
                THEN [s EXCEPT ![k].assignments = SetAdd(@, destName)]
                ELSE [s EXCEPT ![k].references = SetAdd(@, destName)]
       IN addSymbolsUsed(t, Tail(used), destName)

\* ------------------------------------------------------------ partitioning
\* start >= lastSize + maxSize
Reaches(start, lastSize, maxSize) == maxSize # Infinity /\ start >= lastSize + maxSize

\* partitionAt(ast.body, callback) together with the callback's effects on
\* pieces and remainingPiece.  lastSize is declared inside the callback, so
\* every call starts from 0.
RECURSIVE partitionAt(_, _, _, _)
partitionAt(body, file, k, acc) ==
  IF k > Len(body) THEN acc
  ELSE
    LET start == StartOf(body, k)
        lastSize == 0
        called == k > 1
        split == called /\ Reaches(start, lastSize, opts.maxSize)
        pieces == IF split THEN Append(acc.pieces, Slice(file, lastSize, start))
                  ELSE acc.pieces
        remainingPiece == IF split THEN Slice(file, start, Len(file))
                          ELSE acc.remainingPiece
        result == IF k = 1 \/ split THEN Append(acc.result, <<k>>)
                  ELSE [acc.result EXCEPT ![Len(acc.result)] = Append(@, k)]
    IN partitionAt(body, file, k + 1,
                   [result |-> result, pieces |-> pieces, remainingPiece |-> remainingPiece])

\* The names a partition's nodes declare, in order.
Declared(body, partition) ==
  Flatten([k \in 1..Len(partition) |->
             IF body[partition[k]].type \in {"VariableDeclaration", "FunctionDeclaration"}
             THEN body[partition[k]].declarations ELSE <<>>])

\* A piece of code that holds a statement in part only.  What acorn-globals
\* makes of it depends on what the remaining characters spell: it throws, or
\* it parses them; the parse modelled is the one that still reads the
\* statement (StatementsIn).
Cut(code) ==
  \E t \in SeqToSet(code) :
    /\ t[2] # 0
    /\ Cardinality({n \in 1..Len(code) : code[n] = t}) < paths[t[1]].body[t[2]].len

\* The loop over the partitions in oneFile; i counts from 0 as in the source.
\* With throws, AcornGlobals(code) throws at the first piece that is cut:
\* files.set and the definitions of that partition have happened by then.
RECURSIVE addPartitions(_, _, _, _, _, _, _)
addPartitions(st, body, relativePath, partitions, pieces, i, throws) ==
  IF i >= Len(partitions) THEN st
  ELSE
    LET destName == IF i = 0 THEN relativePath
                    ELSE modifyFilename(relativePath,
                                        relativePath.name \o <<".">> \o String(i))
        code == pieces[i + 1]
        defined == addSymbolDefinitions(st.symbols, Declared(body, partitions[i + 1]), destName)
        used == addSymbolsUsed(defined, AcornGlobals(code), destName)
    IN IF throws /\ Cut(code)
       THEN [st EXCEPT !.files = FilesSet(@, destName, code), !.symbols = defined]
       ELSE addPartitions([st EXCEPT !.files = FilesSet(@, destName, code), !.symbols = used],
                          body, relativePath, partitions, pieces, i + 1, throws)

\* The text oneFile partitions: the text read, without its comments if
\* stripComments is set.
FileText(p) ==
  IF opts.stripComments
  THEN stripComments(ReadFile(p), OnComment(paths[p].body), Len(OnComment(paths[p].body)))
  ELSE ReadFile(p)

\* The partitions of path p and their pieces of text.
Partitions(p) ==
  LET parts == partitionAt(paths[p].body, FileText(p), 1,
                           [result |-> <<>>, pieces |-> <<>>, remainingPiece |-> FileText(p)])
  IN [result |-> parts.result, pieces |-> Append(parts.pieces, parts.remainingPiece)]

oneFile(st, p, throws) ==
  LET path == paths[p]
      dup == toLowerCase(path.name) \in st.fileNames /\ opts.renameDups
      relativePath ==
        IF dup
        THEN modifyFilename([dir |-> path.dir, name |-> path.name],
                            path.name \o padStart(String(st.dupCount), PadWidth, "0"))
        ELSE [dir |-> path.dir, name |-> path.name]
      st1 == [st EXCEPT !.dupCount = IF dup THEN @ + 1 ELSE @,
                        !.fileNames = @ \cup {toLowerCase(relativePath.name)}]
      parts == Partitions(p)
  IN IF ~path.ok THEN st1
     ELSE addPartitions(st1, path.body, relativePath, parts.result, parts.pieces, 0, throws)

\* The registry seeding at the head of scan().
seedFileNames(st, ps) ==
  [st EXCEPT !.fileNames =
     @ \cup UNION {SeqToSet(DirSegments(ps[k])) : k \in 1..Len(ps)}]

\* Mutant: the purge that deletes nothing.
removeGlobalSymbolsKeepsAll(st) == st

removeGlobalSymbols(st) ==
  [st EXCEPT !.symbols = SelectSeq(@, LAMBDA e : e.definition # NoFile)]

\* ------------------------------------------------------------------ merges
\* Mutant: the merge that leaves the assignments sets alone.
combineFileEntriesKeepsAssignments(st, first, second) ==
  LET fs == FilesDelete(FilesSet(st.files, first,
                                 FilesGet(st.files, first) \o FilesGet(st.files, second)),
                        second)
      syms == [k \in 1..Len(st.symbols) |->
                 [name |-> st.symbols[k].name,
                  assignments |-> st.symbols[k].assignments,
                  references |-> replaceInSet(st.symbols[k].references, second, first),
                  definition |-> IF st.symbols[k].definition = second THEN first
                                 ELSE st.symbols[k].definition]]
  IN [st EXCEPT !.files = fs, !.symbols = syms,
                !.log = Append(@, [first |-> first, second |-> second,
                                   before |-> [files |-> st.files, symbols |-> st.symbols],
                                   after |-> [files |-> fs, symbols |-> syms]])]

\* Mutant: the merge that leaves the definition pointers alone.
combineFileEntriesKeepsDefinition(st, first, second) ==
  LET fs == FilesDelete(FilesSet(st.files, first,
                                 FilesGet(st.files, first) \o FilesGet(st.files, second)),
                        second)
      syms == [k \in 1..Len(st.symbols) |->
                 [name |-> st.symbols[k].name,
                  assignments |-> replaceInSet(st.symbols[k].assignments, second, first),
                  references |-> replaceInSet(st.symbols[k].references, second, first),
                  definition |-> st.symbols[k].definition]]
  IN [st EXCEPT !.files = fs, !.symbols = syms,
                !.log = Append(@, [first |-> first, second |-> second,
                                   before |-> [files |-> st.files, symbols |-> st.symbols],
                                   after |-> [files |-> fs, symbols |-> syms]])]

\* Mutant: the merge that puts the text of second before that of first.
combineFileEntriesPrepends(st, first, second) ==
  LET fs == FilesDelete(FilesSet(st.files, first,
                                 FilesGet(st.files, second) \o FilesGet(st.files, first)),
                        second)
      syms == [k \in 1..Len(st.symbols) |->
                 [name |-> st.symbols[k].name,
                  assignments |-> replaceInSet(st.symbols[k].assignments, second, first),
                  references |-> replaceInSet(st.symbols[k].references, second, first),
                  definition |-> IF st.symbols[k].definition = second THEN first
                                 ELSE st.symbols[k].definition]]
  IN [st EXCEPT !.files = fs, !.symbols = syms,
                !.log = Append(@, [first |-> first, second |-> second,
                                   before |-> [files |-> st.files, symbols |-> st.symbols],
                                   after |-> [files |-> fs, symbols |-> syms]])]

\* combineFileEntries(first, second): second is folded into first.
combineFileEntries(st, first, second) ==
  LET fs == FilesDelete(FilesSet(st.files, first,
                                 FilesGet(st.files, first) \o FilesGet(st.files, second)),
                        second)
      syms == [k \in 1..Len(st.symbols) |->
                 [name |-> st.symbols[k].name,
                  assignments |-> replaceInSet(st.symbols[k].assignments, second, first),
                  references |-> replaceInSet(st.symbols[k].references, second, first),
                  definition |-> IF st.symbols[k].definition = second THEN first
                                 ELSE st.symbols[k].definition]]
  IN [st EXCEPT !.files = fs, !.symbols = syms,
                !.log = Append(@, [first |-> first, second |-> second,
                                   before |-> [files |-> st.files, symbols |-> st.symbols],
                                   after |-> [files |-> fs, symbols |-> syms]])]

\* The inner loop of combineFiles over otherFileAssignments.
RECURSIVE combineOthers(_, _, _)
combineOthers(st, definition, others) ==
  IF others = <<>> THEN st
  ELSE combineOthers(combineFileEntries(st, definition, Head(others)), definition, Tail(others))

\* The loop of combineFiles over the symbol table, entry k onwards.
RECURSIVE combineFrom(_, _)
combineFrom(st, k) ==
  IF k > Len(st.symbols) THEN st
  ELSE
    LET definition == st.symbols[k].definition
        otherFileAssignments ==
          SelectSeq(st.symbols[k].assignments, LAMBDA file : file # definition)
    IN combineFrom(combineOthers(st, definition, otherFileAssignments), k + 1)

combineFiles(st) == combineFrom(st, 1)

\* Mutant: the grouping that opens a group for every entry.
RECURSIVE groupByUngrouped(_, _)
groupByUngrouped(entries, acc) ==
  IF entries = <<>> THEN acc
  ELSE groupByUngrouped(Tail(entries),
                        Append(acc, [from |-> Head(entries).definition,
                                     names |-> <<Head(entries).name>>]))

\* groupBy(symbolsUsed, entry => entry.definition): the keys in first-seen
\* order, each with the names grouped under it.
RECURSIVE groupBy(_, _)
groupBy(entries, acc) ==
  IF entries = <<>> THEN acc
  ELSE
    LET e == Head(entries)
        has == \E k \in 1..Len(acc) : acc[k].from = e.definition
        grown == IF has
                 THEN [k \in 1..Len(acc) |->
                         IF acc[k].from = e.definition
                         THEN [acc[k] EXCEPT !.names = Append(@, e.name)] ELSE acc[k]]
                 ELSE Append(acc, [from |-> e.definition, names |-> <<e.name>>])
    IN groupBy(Tail(entries), grown)

createImports(st, path) ==
  groupBy(SelectSeq(st.symbols,
                    LAMBDA e : e.definition # path /\ Contains(e.references, path)),
          <<>>)

ImportKeys(imports) == {imports[k].from : k \in 1..Len(imports)}

\* Mutant: the inner loop that stops one short, at j > i + 1.
RECURSIVE circInnerSkipsNeighbour(_, _, _, _, _)
circInnerSkipsNeighbour(st, keys, i, imports, j) ==
  IF j <= i + 1 THEN st
  ELSE
    LET examined == [st EXCEPT !.pairs = Append(@, <<keys[i], keys[j]>>)]
    IN IF keys[j] \notin imports \/ keys[i] \notin ImportKeys(createImports(st, keys[j]))
       THEN circInnerSkipsNeighbour(examined, keys, i, imports, j - 1)
       ELSE circInnerSkipsNeighbour(combineFileEntries(examined, keys[i], keys[j]),
                                    keys, i, imports, j - 1)

\* Mutant: the inner loop that folds the earlier key into the later one.
RECURSIVE circInnerKeepsLater(_, _, _, _, _)
circInnerKeepsLater(st, keys, i, imports, j) ==
  IF j <= i THEN st
  ELSE
    LET examined == [st EXCEPT !.pairs = Append(@, <<keys[i], keys[j]>>)]
    IN IF keys[j] \notin imports \/ keys[i] \notin ImportKeys(createImports(st, keys[j]))
       THEN circInnerKeepsLater(examined, keys, i, imports, j - 1)
       ELSE circInnerKeepsLater(combineFileEntries(examined, keys[j], keys[i]),
                                keys, i, imports, j - 1)

\* Mutant: the inner loop that runs down to j = i.
RECURSIVE circInnerComparesSelf(_, _, _, _, _)
circInnerComparesSelf(st, keys, i, imports, j) ==
  IF j < i THEN st
  ELSE
    LET examined == [st EXCEPT !.pairs = Append(@, <<keys[i], keys[j]>>)]
    IN IF keys[j] \notin imports \/ keys[i] \notin ImportKeys(createImports(st, keys[j]))
       THEN circInnerComparesSelf(examined, keys, i, imports, j - 1)
       ELSE circInnerComparesSelf(combineFileEntries(examined, keys[i], keys[j]),
                                  keys, i, imports, j - 1)

\* The inner loop of findCircularities: j runs from keys.length - 1 down to
\* i + 1 (0-based); imports was computed before the loop began.
RECURSIVE circInner(_, _, _, _, _)
circInner(st, keys, i, imports, j) ==
  IF j <= i THEN st
  ELSE
    LET key == keys[i]
        key2 == keys[j]
        backImports == ImportKeys(createImports(st, key2))
        examined == [st EXCEPT !.pairs = Append(@, <<key, key2>>)]
    IN IF key2 \notin imports \/ key \notin backImports
       THEN circInner(examined, keys, i, imports, j - 1)
       ELSE circInner(combineFileEntries(examined, key, key2), keys, i, imports, j - 1)

RECURSIVE circOuter(_, _, _)
circOuter(st, keys, i) ==
  IF i < 1 THEN st
  ELSE circOuter(circInner(st, keys, i, ImportKeys(createImports(st, keys[i])), Len(keys)),
                 keys, i - 1)

findCircularities(st) == circOuter(st, Keys(st.files), Len(st.files))

\* ------------------------------------------------------------------ output
\* depth(path): the number of directory segments.
depth(path) == Len(path.dir)

\* The segment ".." of upDir.
UpDir == <<".", ".">>

\* Path.normalize of a joined path, as segments: a ".." removes the segment
\* before it unless that is a ".." too or there is none.
RECURSIVE normalizeFrom(_, _)
normalizeFrom(done, segments) ==
  IF segments = <<>> THEN done
  ELSE IF Head(segments) = UpDir /\ done # <<>> /\ done[Len(done)] # UpDir
       THEN normalizeFrom(SubSeq(done, 1, Len(done) - 1), Tail(segments))
       ELSE normalizeFrom(Append(done, Head(segments)), Tail(segments))

normalize(segments) == normalizeFrom(<<>>, segments)

symbolsDefined(st, path) ==
  LET defined == SelectSeq(st.symbols, LAMBDA e : e.definition = path)
  IN [k \in 1..Len(defined) |-> defined[k].name]

\* The loop of write() over the file table.
write(st) ==
  [k \in 1..Len(st.files) |->
     [path |-> st.files[k].key,
      imports |-> LET im == createImports(st, st.files[k].key)
                  IN [n \in 1..Len(im) |->
                        [up |-> depth(st.files[k].key), from |-> im[n].from,
                         path |-> normalize(Repeat(UpDir, depth(st.files[k].key))
                                              \o im[n].from.dir \o <<im[n].from.name>>),
                         names |-> im[n].names]],
      data |-> st.files[k].text,
      exports |-> symbolsDefined(st, st.files[k].key)]]

writeIndexJs(st) == Keys(st.files)

\* ------------------------------------------------------------- the inputs
Range(n) == 1..n

\* A top-level statement as the parser reports it: node type, declared
\* names, the free names it reads and assigns, and its length in characters.
Statement(declarations, reads, writes, len) ==
  [type |-> IF declarations = <<>> THEN "ExpressionStatement" ELSE "VariableDeclaration",
   declarations |-> declarations, reads |-> reads, writes |-> writes, len |-> len,
   comment |-> 0]

InputFile(dir, name, ok, body) == [dir |-> dir, name |-> name, ok |-> ok, body |-> body]

Options(maxSize, renameDups, combine, runs) ==
  [maxSize |-> maxSize, renameDups |-> renameDups, combine |-> combine, runs |-> runs,
   stripComments |-> FALSE]

Stems == <<"a", "b", "c", "d", "e">>

\* Files a.js, b.js, ... of the root directory, in this order, with the given bodies.
RootFiles(bodies) ==
  [k \in 1..Len(bodies) |-> InputFile(<<>>, <<Stems[k]>>, TRUE, bodies[k])]

\* Files that declare one name and read any of the others: var x = y + z;
ReaderBodies ==
  UNION {{<<Statement(<<n>>, r, {}, 1)>> : r \in SUBSET (SeqToSet(NameOrder) \ {n})} :
           n \in SeqToSet(NameOrder)}

\* Files of one statement over x and y that declares, reads or assigns each:
\* var x = y;   x = y;   var x = (y = 1);   x = 1, y = 2;   ...
WriterNames == {"x", "y"}

WriterBodies ==
  {<<Statement(SelectSeq(NameOrder, LAMBDA n : n \in WriterNames /\ role[n] = "declare"),
               {n \in WriterNames : role[n] = "read"},
               {n \in WriterNames : role[n] = "assign"}, 1)>> :
     role \in [WriterNames -> {"none", "declare", "read", "assign"}]}

\* Files of several statements of several lengths, each declaring or reading x.
SizedStatements ==
  {Statement(d, r, {}, len) : d \in {<<"x">>}, r \in {{}}, len \in Range(MaxStmtLen)}
  \cup {Statement(<<>>, {"x"}, {}, len) : len \in Range(MaxStmtLen)}

SizedBodies == UNION {[Range(n) -> SizedStatements] : n \in Range(MaxStmts)}

\* The body with a one-character comment at the head of the file.
WithHeader(body) == [body EXCEPT ![1].comment = 1]

\* Pairs of files of one statement per name used, each name declared, read,
\* assigned, or read and assigned (x = x + 1):  var x; y = y + 1;
PairRoles == {"none", "declare", "read", "assign", "update"}

NameStatement(n, role) ==
  Statement(IF role = "declare" THEN <<n>> ELSE <<>>,
            IF role \in {"read", "update"} THEN {n} ELSE {},
            IF role \in {"assign", "update"} THEN {n} ELSE {}, 1)

PairBodies ==
  {LET used == SelectSeq(NameOrder, LAMBDA n : n \in WriterNames /\ role[n] # "none")
   IN [k \in 1..Len(used) |-> NameStatement(used[k], role[used[k]])] :
     role \in [WriterNames -> PairRoles]}

\* Files whose names and directories can collide.
NameStems == {<<"u">>, <<"U">>, <<"u", "0", "0", "0">>}

NameDirs == {<<>>, <<<<"U">>>>}

NamedFiles ==
  {InputFile(dir, name, ok, <<Statement(<<"x">>, {}, {}, 1)>>) :
     dir \in NameDirs, name \in NameStems, ok \in BOOLEAN}

Distinct(ps) ==
  \A j, k \in 1..Len(ps) : j # k => (ps[j].dir # ps[k].dir \/ ps[j].name # ps[k].name)

EmptyState == [symbols |-> <<>>, files |-> <<>>, fileNames |-> {}, dupCount |-> 0,
               log |-> <<>>, pairs |-> <<>>]

Main == [symbols |-> symbols, files |-> files, fileNames |-> fileNames,
         dupCount |-> dupCount, log |-> log, pairs |-> pairs]

Begin(ps, o) ==
  /\ paths = ps
  /\ opts = o
  /\ symbols = <<>>
  /\ files = <<>>
  /\ fileNames = {}
  /\ dupCount = 0
  /\ pc = "scan"
  /\ next = 1
  /\ output = <<>>
  /\ indexJs = <<>>
  /\ log = <<>>
  /\ run = 1
  /\ firstRun = <<>>
  /\ shadow = EmptyState
  /\ inserted = <<>>
  /\ pairs = <<>>

InitReaders ==
  \E n \in Range(MaxFiles) : \E bodies \in [Range(n) -> ReaderBodies] :
    Begin(RootFiles(bodies), Options(Infinity, FALSE, FALSE, 1))

InitWriters ==
  \E n \in Range(MaxFiles) : \E bodies \in [Range(n) -> WriterBodies] :
    Begin(RootFiles(bodies), Options(Infinity, FALSE, TRUE, 1))

InitSized ==
  \E body \in SizedBodies : \E maxSize \in Range(MaxMaxSize) \cup {Infinity} :
    \E header, strip \in BOOLEAN :
      /\ strip => header
      /\ Begin(RootFiles(<<IF header THEN WithHeader(body) ELSE body>>),
               [Options(maxSize, FALSE, FALSE, 1) EXCEPT !.stripComments = strip])

\* a.js and b.js or U/b.js, whole or one statement to a partition.
InitPairs ==
  \E first, second \in PairBodies : \E dir \in NameDirs :
    \E combine \in BOOLEAN : \E maxSize \in {1, Infinity} :
      Begin(<<InputFile(<<>>, <<"a">>, TRUE, first), InputFile(dir, <<"b">>, TRUE, second)>>,
            Options(maxSize, FALSE, combine, 1))

InitNamed ==
  \E n \in Range(MaxNameFiles) : \E ps \in [Range(n) -> NamedFiles] :
    \E renameDups \in BOOLEAN :
      /\ Distinct(ps)
      /\ Begin(ps, Options(Infinity, renameDups, FALSE, MaxRuns))

Init == InitReaders \/ InitWriters \/ InitSized \/ InitNamed \/ InitPairs

\* ------------------------------------------------------------ the pipeline
Store(st) ==
  /\ symbols' = st.symbols
  /\ files' = st.files
  /\ fileNames' = st.fileNames
  /\ dupCount' = st.dupCount
  /\ log' = st.log
  /\ pairs' = st.pairs

Parsing == SelectSeq(paths, LAMBDA path : path.ok)

\* scan(): the registry is seeded with the directory segments of all paths.
Scan ==
  /\ pc = "scan"
  /\ Store(seedFileNames(Main, paths))
  /\ shadow' = seedFileNames(shadow, Parsing)
  /\ pc' = "walk"
  /\ next' = 1
  /\ UNCHANGED <<paths, opts, output, indexJs, run, firstRun, inserted>>

\* walkFiles(): await oneFile(path) for the next path.
\* If AcornGlobals throws, oneFile rejects and es6ify with it.
OneFile ==
  /\ pc = "walk"
  /\ next <= Len(paths)
  /\ \E throws \in BOOLEAN :
       /\ throws => paths[next].ok /\ \E n \in 1..Len(Partitions(next).pieces) :
                                         Cut(Partitions(next).pieces[n])
       /\ Store(oneFile(Main, next, throws))
       /\ shadow' = IF paths[next].ok THEN oneFile(shadow, next, throws) ELSE shadow
       /\ pc' = IF throws THEN "failed" ELSE pc
  /\ next' = next + 1
  /\ inserted' = inserted \o SelectSeq(Keys(files'), LAMBDA key : ~Contains(inserted, key))
  /\ UNCHANGED <<paths, opts, output, indexJs, run, firstRun>>

\* scan(): removeGlobalSymbols() once walkFiles has handled every path.
RemoveGlobalSymbols ==
  /\ pc = "walk"
  /\ next > Len(paths)
  /\ Store(removeGlobalSymbols(Main))
  /\ shadow' = removeGlobalSymbols(shadow)
  /\ pc' = "combine"
  /\ UNCHANGED <<paths, opts, next, output, indexJs, run, firstRun, inserted>>

\* if (combine) combineFiles();
CombineFiles ==
  /\ pc = "combine"
  /\ Store(IF opts.combine THEN combineFiles(Main) ELSE Main)
  /\ shadow' = IF opts.combine THEN combineFiles(shadow) ELSE shadow
  /\ pc' = "circ"
  /\ UNCHANGED <<paths, opts, next, output, indexJs, run, firstRun, inserted>>

\* findCircularities();
FindCircularities ==
  /\ pc = "circ"
  /\ Store(findCircularities(Main))
  /\ shadow' = findCircularities(shadow)
  /\ pc' = "write"
  /\ UNCHANGED <<paths, opts, next, output, indexJs, run, firstRun, inserted>>

\* if (dest) await write();  dest is given in every run modelled.
Write ==
  /\ pc = "write"
  /\ output' = write(Main)
  /\ indexJs' = writeIndexJs(Main)
  /\ pc' = "done"
  /\ UNCHANGED <<paths, opts, symbols, files, fileNames, dupCount, next, log, run,
                 firstRun, shadow, inserted, pairs>>

\* The process calls es6ify once more with the same arguments: symbols and
\* files are created afresh, fileNames and dupCount belong to the module.
Invoke ==
  /\ pc = "done"
  /\ run < opts.runs
  /\ firstRun' = <<[files |-> files, symbols |-> symbols, output |-> output,
                    indexJs |-> indexJs]>>
  /\ symbols' = <<>>
  /\ files' = <<>>
  /\ log' = <<>>
  /\ shadow' = [shadow EXCEPT !.symbols = <<>>, !.files = <<>>, !.log = <<>>,
                             !.pairs = <<>>]
  /\ output' = <<>>
  /\ indexJs' = <<>>
  /\ inserted' = <<>>
  /\ pairs' = <<>>
  /\ run' = run + 1
  /\ pc' = "scan"
  /\ next' = 1
  /\ UNCHANGED <<paths, opts, fileNames, dupCount>>

Next ==
  \/ Scan
  \/ OneFile
  \/ RemoveGlobalSymbols
  \/ CombineFiles
  \/ FindCircularities
  \/ Write
  \/ Invoke

Spec == Init /\ [][Next]_vars

\* ------------------------------------------------------------- properties
FileKeys(fs) == SeqToSet(Keys(fs))

Entries(syms) == SeqToSet(syms)

\* A imports from B and B imports from A, as createImports derives it.
Circular(st, A, B) ==
  /\ B \in ImportKeys(createImports(st, A))
  /\ A \in ImportKeys(createImports(st, B))

Swept == pc \in {"write", "done"}

\* C1 (as stated): once findCircularities has run, no two distinct surviving
\* files import from each other.
C1_NoResidualCycle ==
  Swept => \A A, B \in FileKeys(files) : A # B => ~Circular(Main, A, B)

\* C1 (amended): two files that import from each other when
\* findCircularities starts do not both survive it; they end in one file.
C1_CircularPairsMerged ==
  [][pc = "circ" =>
       \A A, B \in FileKeys(files) :
         (A # B /\ Circular(Main, A, B)) => ~(FilesHas(files', A) /\ FilesHas(files', B))]_vars

\* C1 witness: the sweep has merged a pair that imported from each other,
\* and three files went into it.
C1_Witness ==
  /\ pc = "write"
  /\ ~opts.combine
  /\ Len(inserted) >= 3
  /\ \E k \in 1..Len(log) : Circular(log[k].before, log[k].first, log[k].second)

\* C2: with combine enabled, after combineFiles and after the cycle stage no
\* symbol is assigned in a file other than the one that defines it.
C2_NoResidualAssignment ==
  (opts.combine /\ pc \in {"circ", "write", "done"}) =>
    \A e \in Entries(symbols) : SeqToSet(e.assignments) \ {e.definition} = {}

\* C2 witness: combineFiles has folded two files into others, the second
\* merge into a file that the first merge had already changed.
C2_Witness ==
  /\ opts.combine
  /\ pc = "circ"
  /\ Len(log) >= 2
  /\ log[2].first \in {log[1].first, log[1].second} \/ log[2].second = log[1].first

ParsedPaths == {p \in 1..Len(paths) : paths[p].ok}

DeclaredNames ==
  UNION {UNION {SeqToSet(paths[p].body[k].declarations) : k \in 1..Len(paths[p].body)} :
           p \in ParsedPaths}

UsedNames ==
  UNION {UNION {paths[p].body[k].reads \cup paths[p].body[k].writes :
                  k \in 1..Len(paths[p].body)} : p \in ParsedPaths}

ImportedNames(out) ==
  UNION {UNION {SeqToSet(out[k].imports[n].names) : n \in 1..Len(out[k].imports)} :
           k \in 1..Len(out)}

\* Every entry has a definition, and the file table holds that file.
Owned(st) ==
  \A e \in Entries(st.symbols) : e.definition # NoFile /\ FilesHas(st.files, e.definition)

\* C3: from the end of scan on, and after every merge, every entry of the
\* symbol table is defined in a file of the file table; a name that no input
\* file declares has no entry and is not imported.
C3_Ownership ==
  pc \in {"combine", "circ", "write", "done"} =>
    /\ Owned(Main)
    /\ \A k \in 1..Len(log) : Owned(log[k].after)
    /\ \A n \in SeqToSet(NameOrder) \ DeclaredNames :
         ~SymbolsHas(symbols, n) /\ n \notin ImportedNames(output)

\* C3 witness: a run with a merge has finished, and a file of it used a
\* name that no file declares.
C3_Witness ==
  /\ pc = "done"
  /\ log # <<>>
  /\ UsedNames \ DeclaredNames # {}
  /\ symbols # <<>>

\* C4 (as stated): with maxSize set, every partition text oneFile stores is
\* at most maxSize long when no single statement is longer than maxSize.
C4_PartitionSizeBound ==
  (/\ opts.maxSize # Infinity
   /\ pc = "walk"
   /\ \A p \in 1..Len(paths) : \A k \in 1..Len(paths[p].body) :
        paths[p].body[k].len <= opts.maxSize) =>
    \A k \in 1..Len(files) : Len(files[k].text) <= opts.maxSize

\* C5: the aggregator lists the surviving file keys, each once, in the
\* order in which ingestion first inserted them.
C5_AggregatorOrder ==
  pc = "done" =>
    /\ indexJs = SelectSeq(inserted, LAMBDA key : FilesHas(files, key))
    /\ \A j, k \in 1..Len(indexJs) : indexJs[j] = indexJs[k] => j = k

\* C5 witness: a merge retired a key that was not the last one inserted,
\* and two or more files survive.
C5_Witness ==
  /\ pc = "done"
  /\ Len(indexJs) >= 2
  /\ \E k \in 1..Len(log) : log[k].second # inserted[Len(inserted)]

\* C6 (as stated): a second invocation with the same input and the same
\* configuration leaves the same file table and writes the same tree.
C6_RepeatableRuns ==
  (run = 2 /\ pc = "done") =>
    /\ files = firstRun[1].files
    /\ symbols = firstRun[1].symbols
    /\ output = firstRun[1].output
    /\ indexJs = firstRun[1].indexJs

\* C7 (as stated): with renameDups, the file keys oneFile assigns in one
\* run have pairwise distinct stems, letter case ignored.
C7_DistinctStems ==
  (opts.renameDups /\ run = 1) =>
    \A j, k \in 1..Len(files) :
      j # k => toLowerCase(files[j].key.name) # toLowerCase(files[k].key.name)

\* C8 (as stated): with renameDups, no file key has a stem equal, letter
\* case ignored, to a directory segment of an input path.
C8_NoDirectoryCollision ==
  (opts.renameDups /\ run = 1) =>
    \A k \in 1..Len(files) : \A p \in 1..Len(paths) : \A seg \in SeqToSet(paths[p].dir) :
      toLowerCase(files[k].key.name) # toLowerCase(seg)

\* C9 (as stated): the files that fail to parse leave no trace: symbol
\* table, file table and output are those of the run without them.
C9_ParseFailureContributesNothing ==
  (run = 1 /\ pc = "done") =>
    /\ files = shadow.files
    /\ symbols = shadow.symbols
    /\ output = write(shadow)

\* What combineFileEntries(first, second) did to a set of file keys.
Rewritten(before, after, l) ==
  /\ l.second \notin SeqToSet(after)
  /\ l.second \in SeqToSet(before) => l.first \in SeqToSet(after)
  /\ \A key \in (SeqToSet(before) \cup SeqToSet(after)) \ {l.first, l.second} :
       key \in SeqToSet(before) <=> key \in SeqToSet(after)
  /\ l.first \in SeqToSet(after) => (l.first \in SeqToSet(before) \/ l.second \in SeqToSet(before))
  /\ l.first \in SeqToSet(before) => l.first \in SeqToSet(after)

\* C10: a merge removes the retired key from the file table, and puts the
\* surviving key wherever a symbol's assignments, references or definition
\* held the retired one; what is held of other keys stays as it was.
C10_MergeFrame ==
  \A n \in 1..Len(log) :
    LET l == log[n]
        b == l.before
        a == l.after
    IN /\ ~FilesHas(a.files, l.second)
       /\ FilesHas(a.files, l.first)
       /\ FileKeys(a.files) \ {l.first} = FileKeys(b.files) \ {l.first, l.second}
       /\ Len(a.symbols) = Len(b.symbols)
       /\ \A k \in 1..Len(b.symbols) :
            /\ a.symbols[k].name = b.symbols[k].name
            /\ Rewritten(b.symbols[k].assignments, a.symbols[k].assignments, l)
            /\ Rewritten(b.symbols[k].references, a.symbols[k].references, l)
            /\ a.symbols[k].definition =
                 IF b.symbols[k].definition = l.second THEN l.first
                 ELSE b.symbols[k].definition

\* C10 witness: a merge retired a key that one symbol's definition, another
\* symbol's references and some symbol's assignments held.
C10_Witness ==
  \E n \in 1..Len(log) :
    /\ \E e \in Entries(log[n].before.symbols) : e.definition = log[n].second
    /\ \E e \in Entries(log[n].before.symbols) : Contains(e.references, log[n].second)
    /\ \E e \in Entries(log[n].before.symbols) : Contains(e.assignments, log[n].second)

\* ------------------------------------------------------- the cycle stage
Position(seq, e) == CHOOSE k \in 1..Len(seq) : seq[k] = e

Names(seq) == SeqToSet(seq)

\* The tables after a step, as createImports and symbolsDefined read them.
After == [files |-> files', symbols |-> symbols']

\* The merges a step adds to the log.
NewMerges == {log'[n] : n \in (Len(log) + 1)..Len(log')}

\* A declares a name that B references and B one that A references.
DeclareForEachOther(st, A, B) ==
  /\ \E e \in Entries(st.symbols) : e.definition = A /\ Contains(e.references, B)
  /\ \E e \in Entries(st.symbols) : e.definition = B /\ Contains(e.references, A)

\* C11: every merge of the cycle stage keeps the key that ingestion inserted
\* earlier and retires the later one; the kept file exports what the two
\* files declared and no surviving file imports from the retired key.  Two
\* files that each declare a name the other references end as one file under
\* the earlier key.
C11_EarlierKeySurvives ==
  [][pc = "circ" =>
       /\ \A l \in NewMerges :
            /\ Position(inserted, l.first) < Position(inserted, l.second)
            /\ FilesHas(l.after.files, l.first)
            /\ ~FilesHas(l.after.files, l.second)
            /\ Names(symbolsDefined(l.before, l.first)) \cup Names(symbolsDefined(l.before, l.second))
                 \subseteq Names(symbolsDefined(l.after, l.first))
            /\ \A K \in FileKeys(files') : l.second \notin ImportKeys(createImports(After, K))
       /\ (Len(files) = 2 /\ DeclareForEachOther(Main, files[1].key, files[2].key)) =>
            /\ Keys(files') = <<files[1].key>>
            /\ Names(symbolsDefined(Main, files[1].key)) \cup Names(symbolsDefined(Main, files[2].key))
                 \subseteq Names(symbolsDefined(After, files[1].key))]_vars

\* C11 witness: two files that declared a name each and read the other's
\* were swept, and one file defining both names is left.
C11_Witness ==
  /\ pc = "write"
  /\ ~opts.combine
  /\ Len(inserted) = 2
  /\ Len(log) = 1
  /\ DeclareForEachOther(log[1].before, log[1].first, log[1].second)
  /\ Keys(files) = <<inserted[1]>>
  /\ Cardinality(Names(symbolsDefined(Main, inserted[1]))) = 2

\* C12: the imports the cycle stage derives for a file F name the owner of
\* every symbol that has F in its references or in its assignments, F itself
\* excepted; a file that only assigns to a name declared in G imports from G.
C12_ImportsCoverAssignments ==
  pc = "circ" =>
    \A F \in FileKeys(files) : \A e \in Entries(symbols) :
      ((Contains(e.references, F) \/ Contains(e.assignments, F)) /\ e.definition # F)
        => e.definition \in ImportKeys(createImports(Main, F))

\* ------------------------------------------------------------- ingestion
Ingested == pc = "walk" /\ next > Len(paths)

\* The free names of a piece of code that it reads, and those it assigns.
FreeRead(code) ==
  UNION {s.reads : s \in StatementsIn(code)}
    \ UNION {SeqToSet(s.declarations) : s \in StatementsIn(code)}

FreeWritten(code) ==
  UNION {s.writes : s \in StatementsIn(code)}
    \ UNION {SeqToSet(s.declarations) : s \in StatementsIn(code)}

\* C13: after ingestion, a partition that both reads and assigns a free name
\* has its key in that name's assignments set and in its references set.
C13_ReadAndWrittenInBothSets ==
  Ingested =>
    \A k \in 1..Len(files) : \A e \in Entries(symbols) :
      e.name \in FreeRead(files[k].text) \cap FreeWritten(files[k].text) =>
        /\ Contains(e.assignments, files[k].key)
        /\ Contains(e.references, files[k].key)

\* ------------------------------------------------------------ partitions
\* The paths oneFile has partitioned.
Partitioned == {p \in 1..Len(paths) : p < next /\ paths[p].ok}

\* The partition of path p that holds statement k.
PartitionOf(p, k) ==
  CHOOSE n \in 1..Len(Partitions(p).result) : Contains(Partitions(p).result[n], k)

StartsPartition(p, k) == Partitions(p).result[PartitionOf(p, k)][1] = k

\* The offset at which partition n of path p starts: 0 for the first, the
\* start of its first statement for the others.
Boundary(p, n) ==
  IF n = 1 THEN 0 ELSE StartOf(paths[p].body, Partitions(p).result[n][1])

\* C14: a statement after the first starts a new partition exactly when its
\* start offset is at least maxSize beyond the start of the current
\* partition, the one most recently started.
C14_BoundaryAdvances ==
  \A p \in Partitioned : \A k \in 2..Len(paths[p].body) :
    StartsPartition(p, k)
      <=> Reaches(StartOf(paths[p].body, k), Boundary(p, PartitionOf(p, k - 1)), opts.maxSize)

\* C15: every partition text holds whole statements only, with and without
\* stripComments: no statement is split between two partitions.
C15_NoStatementSplit ==
  pc \in {"walk", "failed"} => \A k \in 1..Len(files) : ~Cut(files[k].text)

\* ------------------------------------------------------------- the sweep
\* The pairs <<i, j>> of positions, i < j, in a list of n keys.
PositionPairs(n) == {ij \in (1..n) \X (1..n) : ij[1] < ij[2]}

\* C16: the sweep examines every pair of the keys the file table held when
\* it began exactly once, the outer key from the last to the first and the
\* inner key over the later ones, merges a pair at most once, never hands
\* combineFileEntries a key that an earlier merge retired, and ends.
C16_SweepExaminesEachPairOnce ==
  [][pc = "circ" =>
       LET keys == Keys(files)
           examined == pairs'
           merged == [n \in 1..(Len(log') - Len(log)) |-> log'[Len(log) + n]]
       IN /\ pc' = "write"
          /\ Len(examined) = Cardinality(PositionPairs(Len(keys)))
          /\ \A ij \in PositionPairs(Len(keys)) :
               \E m \in 1..Len(examined) : examined[m] = <<keys[ij[1]], keys[ij[2]]>>
          /\ \A m, n \in 1..Len(examined) :
               m < n =>
                 \/ Position(keys, examined[m][1]) > Position(keys, examined[n][1])
                 \/ /\ examined[m][1] = examined[n][1]
                    /\ Position(keys, examined[m][2]) > Position(keys, examined[n][2])
          /\ \A m \in 1..Len(merged) :
               /\ Contains(examined, <<merged[m].first, merged[m].second>>)
               /\ FilesHas(merged[m].before.files, merged[m].first)
               /\ FilesHas(merged[m].before.files, merged[m].second)
               /\ \A n \in 1..Len(merged) :
                    (merged[n].first = merged[m].first /\ merged[n].second = merged[m].second)
                      => n = m]_vars

\* C16 witness: a sweep over three keys examined its three pairs and made
\* two merges, so that a retired key was examined again.
C16_Witness ==
  /\ pc = "write"
  /\ Len(inserted) = 3
  /\ Len(pairs) = 3
  /\ Len(log) = 2
  /\ ~opts.combine

\* ------------------------------------------------------- text conservation
\* The ingested keys whose texts the first n merges have gathered under a key.
RECURSIVE Members(_, _)
Members(key, n) ==
  IF n = 0 THEN <<key>>
  ELSE IF log[n].first = key THEN Members(key, n - 1) \o Members(log[n].second, n - 1)
       ELSE Members(key, n - 1)

\* The file table as ingestion left it, before the first merge.
IngestedFiles == log[1].before.files

\* C17: merges conserve the text.  Every merge stores, under the surviving
\* key, the text of the first file followed by that of the second; a merge
\* of the Merger has the declaring file first and the assigning file second;
\* every surviving text is the texts of the ingested partitions gathered in
\* it, in the order of the merges, and every ingested partition is gathered
\* in exactly one surviving file, once.
C17_TextConserved ==
  log # <<>> =>
    /\ \A n \in 1..Len(log) :
         LET l == log[n]
         IN /\ FilesHas(l.before.files, l.first)
            /\ FilesHas(l.before.files, l.second)
            /\ FilesGet(l.after.files, l.first)
                 = FilesGet(l.before.files, l.first) \o FilesGet(l.before.files, l.second)
            /\ l.before.files = IF n = 1 THEN IngestedFiles ELSE log[n - 1].after.files
            /\ (opts.combine /\ pc = "circ") =>
                 \E e \in Entries(l.before.symbols) :
                   e.definition = l.first /\ Contains(e.assignments, l.second)
    /\ files = log[Len(log)].after.files
    /\ \A k \in 1..Len(files) :
         LET members == Members(files[k].key, Len(log))
         IN files[k].text
              = Flatten([m \in 1..Len(members) |-> FilesGet(IngestedFiles, members[m])])
    /\ \A key \in FileKeys(IngestedFiles) :
         Cardinality({km \in (1..Len(files)) \X (1..Len(IngestedFiles)) :
                        /\ km[2] <= Len(Members(files[km[1]].key, Len(log)))
                        /\ Members(files[km[1]].key, Len(log))[km[2]] = key}) = 1

\* C17 witness: the Merger and the cycle stage have gathered three ingested
\* files in one.
C17_Witness ==
  /\ pc = "write"
  /\ opts.combine
  /\ Len(log) = 2
  /\ \E k \in 1..Len(files) : Len(Members(files[k].key, Len(log))) = 3
  /\ \E n \in 1..Len(pairs) : pairs[n] = <<log[2].first, log[2].second>>

\* ------------------------------------------------------ partition texts
\* The key of partition n (from 1) of path p when the file keeps its name.
PartitionKey(p, n) ==
  IF n = 1 THEN [dir |-> paths[p].dir, name |-> paths[p].name]
  ELSE [dir |-> paths[p].dir, name |-> paths[p].name \o <<".">> \o String(n - 1)]

\* The statements of path p of which a text holds characters.
StatementIndices(p, text) == {t[2] : t \in {c \in SeqToSet(text) : c[1] = p /\ c[2] # 0}}

\* C18: the texts stored for the partitions of a parsed file are as many as
\* the partitions, follow one another without overlap so that together they
\* are the text of the file, and the text of partition n holds exactly the
\* statements of partition n.
C18_TextsPartitionFile ==
  (pc = "walk" /\ ~opts.renameDups) =>
    \A p \in Partitioned :
      LET partitions == Partitions(p).result
          texts == [n \in 1..Len(partitions) |-> FilesGet(files, PartitionKey(p, n))]
      IN /\ \A n \in 1..Len(partitions) : FilesHas(files, PartitionKey(p, n))
         /\ ~FilesHas(files, PartitionKey(p, Len(partitions) + 1))
         /\ Flatten(texts) = FileText(p)
         /\ \A n \in 1..Len(partitions) :
              StatementIndices(p, texts[n]) = SeqToSet(partitions[n])

\* -------------------------------------------------------- the emitted tree
\* The file an import path written into a file of directory dir names.
Resolve(dir, path) ==
  LET segments == normalizeFrom(dir, path)
  IN [dir |-> SubSeq(segments, 1, Len(segments) - 1), name |-> segments[Len(segments)]]

\* The emitted files whose export statement lists name s.
Exporters(s) == {d \in 1..Len(output) : Contains(output[d].exports, s)}

\* C19: in the emitted tree an import of s into P from D names a file D
\* that was emitted, is not P and exports s; s is exported by that file
\* only; and P has one import statement for each file it imports from.
C19_ImportsMatchExports ==
  pc = "done" =>
    \A P \in 1..Len(output) :
      /\ \A m \in 1..Len(output[P].imports) :
           LET D == Resolve(output[P].path.dir, output[P].imports[m].path)
           IN /\ D # output[P].path
              /\ \A n \in 1..Len(output[P].imports[m].names) :
                   /\ \E d \in Exporters(output[P].imports[m].names[n]) : output[d].path = D
                   /\ Cardinality(Exporters(output[P].imports[m].names[n])) = 1
      /\ \A m, n \in 1..Len(output[P].imports) :
           Resolve(output[P].path.dir, output[P].imports[m].path)
             = Resolve(output[P].path.dir, output[P].imports[n].path) => m = n

\* C19 witness: a file in a directory was written with one import of two
\* names from a file of the root.
C19_Witness ==
  /\ pc = "done"
  /\ \E P \in 1..Len(output) : \E m \in 1..Len(output[P].imports) :
       /\ Len(output[P].imports[m].names) = 2
       /\ output[P].imports[m].up = 1
       /\ output[P].imports[m].path[1] = UpDir
====
